---- MODULE Spec2Model ----
(***************************************************************************)
(* Checkout-to-payment reconciliation of autoparts_kenya.                  *)
(*                                                                         *)
(* The database (PostgreSQL, READ COMMITTED) is the committed state:       *)
(* product, orders, items, txlog.  An HTTP request runs inside one         *)
(* database transaction (ATOMIC_REQUESTS): its writes are buffered in the  *)
(* request and reach the committed state at commit, or are dropped at      *)
(* rollback.  A Celery worker runs in autocommit mode: each save() is a    *)
(* committed write of the whole row held in the worker's memory.           *)
(*                                                                         *)
(* Money is kept exact: "e4" values are 1/10000 KSh, stored columns        *)
(* (DecimalField decimal_places=2) are cents.                              *)
(***************************************************************************)
EXTENDS Integers, Sequences, FiniteSets, TLC

(* ------------------------------ bounds --------------------------------- *)

MaxOrders == 2
MaxClock == 2
MaxTxns == 2
MaxQueue == 1
InitStock == 5

(* --------------------------- program constants ------------------------- *)

DELIVERY_BASE_RATE == 200

ORDER_STATUSES == {"pending", "confirmed", "processing", "shipped", "delivered", "cancelled"}

PAYMENT_STATUSES == {"unpaid", "pending", "paid", "failed", "refunded"}

TRANSACTION_TYPES == {"stk_initiate", "stk_timeout", "user_cancel", "payment_success", "payment_failed", "payment_pending"}

(* ------------------------------ catalogue ------------------------------ *)

\* Product rows that exist.  Product 3 is inactive; id 4 names no row.
CatalogIds == {1, 2, 3}

\* Product.price in cents (DecimalField, two places).
price == [p \in CatalogIds |-> IF p = 2 THEN 999 ELSE 1000]

\* Product.discount_percentage (IntegerField 0..100).
discount_percentage == [p \in CatalogIds |-> IF p = 2 THEN 33 ELSE 0]

\* HTTP handlers that can be in flight at once.
Requests == {"r1", "r2"}

Line(p, q) == [product_id |-> p, quantity |-> q]

\* Item lists of concurrent checkout requests (quantity is within 1..100):
\* every product is named at most once in a cart.
Carts ==
    { <<>>,
      <<Line(1, 1)>>, <<Line(1, InitStock)>>,
      <<Line(1, 1), Line(2, 1)>>,
      <<Line(3, 1)>>, <<Line(4, 1)>> }

\* Item lists of the single-handler runs: repeated products, fractional
\* discounted prices, a line beyond the stock.
WideCarts ==
    Carts \cup
    { <<Line(1, 3)>>, <<Line(2, 2)>>,
      <<Line(1, 3), Line(1, 1)>>,
      <<Line(1, 3), Line(1, 3)>>,
      <<Line(1, 1), Line(2, 2)>>,
      <<Line(1, 1), Line(3, 1)>>,
      <<Line(2, InitStock + 1)>> }

\* (user, guest_email supplied): authenticated, guest with and without email.
Identities == { <<"u1", FALSE>>, <<"anon", TRUE>>, <<"anon", FALSE>> }

Cities == {"Nairobi", "Eldoret"}

DeliveryTypes == {"standard", "express"}

VARIABLES
    now,        \* wall clock, whole seconds
    product,    \* Product rows: id -> [stock, reserved_stock, is_active]
    orders,     \* Order rows, id = position
    items,      \* OrderItem rows
    txlog,      \* TransactionLog rows, id = position
    req,        \* checkout requests: position in the view, inputs, buffered writes, response
    queue,      \* Celery queue of callback payloads
    worker,     \* Celery workers running process_mpesa_callback
    ack,        \* ResultCode of the webhook's last response ("none": no call yet)
    pushes      \* calls of DarajaAPI.initiate_stk_push made by the payment view

vars == <<now, product, orders, items, txlog, req, queue, worker, ack, pushes>>

(* ------------------------------- money --------------------------------- *)

\* Storing a Decimal in a two-place column: e4 -> cents, ties to even.
Round2(x) ==
    LET q == x \div 100
        r == x % 100
    IN  IF r < 50 THEN q
        ELSE IF r > 50 THEN q + 1
        ELSE IF q % 2 = 0 THEN q ELSE q + 1

\* Product.discounted_price, in e4: price - price * discount_percentage / 100.
discounted_price(p) ==
    IF discount_percentage[p] # 0
    THEN price[p] * 100 - price[p] * discount_percentage[p]
    ELSE price[p] * 100

\* Product.available_stock
available_stock(row) ==
    IF row.stock - row.reserved_stock > 0 THEN row.stock - row.reserved_stock ELSE 0

\* calculate_delivery_time(...)['delivery_base_cost'], in e4: the rate table
\* gives day ranges only, the cost is the flat base rate.
delivery_base_cost(city, dtype) == DELIVERY_BASE_RATE * 10000

\* calculate_order_total_with_delivery, in e4.
calculate_order_total_with_delivery(subtotal, city, dtype) ==
    [subtotal |-> subtotal,
     delivery_cost |-> delivery_base_cost(city, dtype),
     total |-> subtotal + delivery_base_cost(city, dtype)]

RECURSIVE SumSeq(_)
SumSeq(s) == IF s = <<>> THEN 0 ELSE Head(s) + SumSeq(Tail(s))

(* ------------------------------ checkout ------------------------------- *)

IdleReq ==
    [pc |-> "idle", cart |-> <<>>, user |-> "anon", guest_email |-> FALSE,
     idx |-> 0, loaded |-> <<>>, w_order |-> <<>>, w_items |-> <<>>,
     w_stock |-> <<>>, result |-> "none", item_errors |-> <<>>]

\* OrderItemCreateSerializer: validate_product_id, then validate.
ItemError_no_stock_check(prod, line) ==
    IF line.product_id \notin DOMAIN prod \/ ~prod[line.product_id].is_active
    THEN "product_unavailable"
    ELSE "ok"
ItemError(prod, line) ==
    IF line.product_id \notin DOMAIN prod \/ ~prod[line.product_id].is_active
    THEN "product_unavailable"
    ELSE IF available_stock(prod[line.product_id]) < line.quantity
    THEN "insufficient_stock"
    ELSE "ok"

\* OrderCreateSerializer.validate
ValidateOrder_no_empty_check(cart, user, guest_email) ==
    IF user = "anon" /\ ~guest_email THEN "missing_contact" ELSE "ok"
ValidateOrder_no_contact_check(cart, user, guest_email) ==
    IF cart = <<>> THEN "empty_cart" ELSE "ok"
ValidateOrder(cart, user, guest_email) ==
    IF cart = <<>> THEN "empty_cart"
    ELSE IF user = "anon" /\ ~guest_email THEN "missing_contact"
    ELSE "ok"

Finished(r, result, errors) ==
    [IdleReq EXCEPT !.pc = "done", !.cart = r.cart, !.user = r.user,
                    !.guest_email = r.guest_email, !.result = result,
                    !.item_errors = errors]

InFlight == {c \in Requests : req[c].pc \notin {"idle", "done"}}

\* CheckoutView.create up to serializer.is_valid: field validation of every
\* item first, the object-level validate only when no item failed.
Checkout_Validate(c, cart, user, guest_email) ==
    /\ req[c].pc \in {"idle", "done"}
    /\ Len(orders) + Cardinality(InFlight) < MaxOrders
    /\ LET errors == [i \in 1..Len(cart) |-> ItemError(product, cart[i])]
           arrived == [IdleReq EXCEPT !.cart = cart, !.user = user,
                                      !.guest_email = guest_email]
           verdict == ValidateOrder(cart, user, guest_email)
       IN  req' = [req EXCEPT ![c] =
                IF \E i \in 1..Len(cart) : errors[i] # "ok"
                THEN Finished(arrived, "invalid_items", errors)
                ELSE IF verdict # "ok"
                THEN Finished(arrived, verdict, <<>>)
                ELSE [arrived EXCEPT !.pc = "create"]]
    /\ UNCHANGED <<now, product, orders, items, txlog, queue, worker, ack, pushes>>

\* The writes of request c as they reach the database.
RECURSIVE WriteStock(_, _)
WriteStock(prod, writes) ==
    IF writes = <<>> THEN prod
    ELSE WriteStock([prod EXCEPT ![Head(writes)[1]].reserved_stock = Head(writes)[2]],
                    Tail(writes))

ApplyWrites(c) ==
    /\ orders' = orders \o req[c].w_order
    /\ items' = items \o [i \in 1..Len(req[c].w_items) |->
                            [req[c].w_items[i] EXCEPT !.order = Len(orders) + 1]]
    /\ product' = WriteStock(product, req[c].w_stock)

\* The writes made before the exception stay (autocommit).
KeepWrites(c) == ApplyWrites(c)

\* ATOMIC_REQUESTS: an exception leaving the view rolls the transaction back.
RollbackWrites(c) == UNCHANGED <<product, orders, items>>

Abort(c, result) ==
    /\ RollbackWrites(c)
    /\ req' = [req EXCEPT ![c] = Finished(req[c], result, <<>>)]

\* The Order row that create() inserts, lines 169-209, at clock t: the
\* subtotal of the cart, the delivery cost, the model's defaults for the
\* status pair, the order number Order.save stamps.
OrderRow_pending_payment(cart, city, dtype, t) ==
    LET subtotal == SumSeq([i \in 1..Len(cart) |->
                              discounted_price(cart[i].product_id) * cart[i].quantity])
        delivery_info == calculate_order_total_with_delivery(subtotal, city, dtype)
    IN  [order_number |-> t,
         subtotal |-> Round2(subtotal),
         delivery_cost |-> Round2(delivery_info.delivery_cost),
         total_amount |-> Round2(delivery_info.total),
         order_status |-> "pending",
         payment_status |-> "pending",
         paid_at |-> {}]
OrderRow(cart, city, dtype, t) ==
    LET subtotal == SumSeq([i \in 1..Len(cart) |->
                              discounted_price(cart[i].product_id) * cart[i].quantity])
        delivery_info == calculate_order_total_with_delivery(subtotal, city, dtype)
    IN  [order_number |-> t,
         subtotal |-> Round2(subtotal),
         delivery_cost |-> Round2(delivery_info.delivery_cost),
         total_amount |-> Round2(delivery_info.total),
         order_status |-> "pending",
         payment_status |-> "unpaid",
         paid_at |-> {}]

\* The OrderItem row of a cart line, lines 176-186 and 213-214.  The product
\* is popped from the data before the insert, so the row's product key is
\* NULL (0); the row names its product by the product_sku snapshot, which the
\* model identifies with the product id.  OrderItem.save computes line_total
\* from the unrounded unit price.
ItemRow(line) ==
    LET unit_price == discounted_price(line.product_id)
    IN  [order |-> 0,
         product |-> 0,
         product_sku |-> line.product_id,
         unit_price |-> Round2(unit_price),
         quantity |-> line.quantity,
         line_total |-> Round2(unit_price * line.quantity)]

\* OrderCreateSerializer.create, lines 156-209: load the products, total the
\* cart, insert the Order.
Checkout_Create(c, city, dtype) ==
    /\ req[c].pc = "create"
    /\ LET cart == req[c].cart
           loaded == [i \in 1..Len(cart) |-> product[cart[i].product_id].reserved_stock]
           row == OrderRow(cart, city, dtype, now)
       IN  IF \E o \in 1..Len(orders) : orders[o].order_number = now
           THEN Abort(c, "server_error")
           ELSE /\ req' = [req EXCEPT ![c].pc = IF cart = <<>> THEN "commit" ELSE "items",
                                      ![c].idx = 1,
                                      ![c].loaded = loaded,
                                      ![c].w_order = <<row>>]
                /\ UNCHANGED <<product, orders, items>>
    /\ UNCHANGED <<now, txlog, queue, worker, ack, pushes>>

\* OrderCreateSerializer.create, lines 212-218, one turn of the loop: insert
\* the OrderItem (OrderItem.save computes line_total), add the quantity to the
\* product object loaded for this line and save its reserved_stock.
Checkout_Item(c) ==
    /\ req[c].pc = "items"
    /\ LET i == req[c].idx
           line == req[c].cart[i]
           item == ItemRow(line)
       IN  req' = [req EXCEPT ![c].w_items = Append(@, item),
                              ![c].w_stock = Append(@, <<line.product_id,
                                                          req[c].loaded[i] + line.quantity>>),
                              ![c].idx = i + 1,
                              ![c].pc = IF i = Len(req[c].cart) THEN "commit" ELSE "items"]
    /\ UNCHANGED <<now, product, orders, items, txlog, queue, worker, ack, pushes>>

\* The view returns 201 and the request's transaction commits.  An insert of
\* an order_number that another transaction committed meanwhile has failed on
\* the unique index.
Checkout_Commit(c) ==
    /\ req[c].pc = "commit"
    /\ IF \E o \in 1..Len(orders) : orders[o].order_number = req[c].w_order[1].order_number
       THEN Abort(c, "server_error")
       ELSE /\ ApplyWrites(c)
            /\ req' = [req EXCEPT ![c] = Finished(req[c], "created", <<>>)]
    /\ UNCHANGED <<now, txlog, queue, worker, ack, pushes>>

\* A database statement of create() raises (the order insert, an item
\* insert, a reservation save): the exception leaves the view.
Checkout_DbError(c) ==
    /\ req[c].pc \in {"create", "items", "commit"}
    /\ Abort(c, "server_error")
    /\ UNCHANGED <<now, txlog, queue, worker, ack, pushes>>

\* ProductCreateUpdateSerializer.update through the owner's product endpoint.
OwnerUpdateProduct(p, stock, is_active) ==
    /\ product' = [product EXCEPT ![p].stock = stock, ![p].is_active = is_active]
    /\ UNCHANGED <<now, orders, items, txlog, req, queue, worker, ack, pushes>>

Tick ==
    /\ now < MaxClock
    /\ now' = now + 1
    /\ UNCHANGED <<product, orders, items, txlog, req, queue, worker, ack, pushes>>

(* ------------------------------ payments ------------------------------- *)

NullRaw == [kind |-> "null", cid |-> 0, code |-> 0, receipt |-> ""]

\* What the gateway does with one push: the token request ("ok": status 200;
\* "fail": another status; "timeout": requests raises), the push request
\* ("response": a JSON body arrives; "timeout", "raises": requests.post or
\* response.json() raises), the status and the ResponseCode of the body
\* ("None": the body has no ResponseCode), and the text of the body's
\* ResponseDescription or of the exception.
GatewayReply(outcome) ==
    [token |-> IF outcome = "token_error" THEN "fail"
               ELSE IF outcome = "token_timeout" THEN "timeout" ELSE "ok",
     push |-> IF outcome = "push_error" THEN "raises"
              ELSE IF outcome = "push_timeout" THEN "timeout" ELSE "response",
     status_code |-> IF outcome \in {"accepted", "rejected"} THEN 200
                     ELSE IF outcome = "bad_status" THEN 400 ELSE 500,
     ResponseCode |-> IF outcome \in {"accepted", "bad_status"} THEN "0"
                      ELSE IF outcome = "rejected" THEN "1" ELSE "None",
     text |-> IF outcome = "http_error" THEN "None" ELSE outcome]

GatewayOutcomes == {"accepted", "rejected", "http_error", "token_error", "push_error"}

\* Every way a push can go: also a timeout of either request, and a non-200
\* status whose body says ResponseCode '0'.
AllGatewayOutcomes == GatewayOutcomes \cup {"token_timeout", "push_timeout", "bad_status"}

\* The dict DarajaAPI.initiate_stk_push returns (raised: the call ended with
\* an exception instead), with the defaults the view reads for absent keys.
\* cid is the CheckoutRequestID the gateway would assign to this push.
StkResult(success, id, response_code, response_message, raw_response) ==
    [raised |-> FALSE, success |-> success,
     merchant_request_id |-> id, checkout_request_id |-> id,
     response_code |-> response_code, response_message |-> response_message,
     raw_response |-> raw_response]

StkRaised == [StkResult(FALSE, 0, "", "", NullRaw) EXCEPT !.raised = TRUE]

\* DarajaAPI.get_access_token raises on a status other than 200 and on a
\* timeout; initiate_stk_push catches both, lines 68-75.
initiate_stk_push_token_unguarded(reply, cid) ==
    IF reply.token # "ok"
    THEN StkRaised
    ELSE IF reply.push # "response"
    THEN StkResult(FALSE, 0, "ERROR", reply.text, NullRaw)
    ELSE IF reply.status_code = 200 /\ reply.ResponseCode = "0"
    THEN StkResult(TRUE, cid, "0", reply.text,
                   [kind |-> "gateway", cid |-> cid, code |-> 0, receipt |-> ""])
    ELSE StkResult(FALSE, 0, reply.ResponseCode, reply.text,
                   [kind |-> "gateway", cid |-> 0, code |-> 1, receipt |-> ""])
initiate_stk_push(reply, cid) ==
    IF reply.token # "ok"
    THEN StkResult(FALSE, 0, "ERROR", reply.text, NullRaw)
    ELSE IF reply.push # "response"
    THEN StkResult(FALSE, 0, "ERROR", reply.text, NullRaw)
    ELSE IF reply.status_code = 200 /\ reply.ResponseCode = "0"
    THEN StkResult(TRUE, cid, "0", reply.text,
                   [kind |-> "gateway", cid |-> cid, code |-> 0, receipt |-> ""])
    ELSE StkResult(FALSE, 0, reply.ResponseCode, reply.text,
                   [kind |-> "gateway", cid |-> 0, code |-> 1, receipt |-> ""])

\* STKPushInitiateView.create.  The request is one transaction with a single
\* insert, so it is one step.  phone_ok: the phone number given, or else the
\* order's recipient_phone, passes validate_mpesa_phone_number.  An exception
\* of the client or of the insert leaves the view: 500, rolled back.
InitiateSTKPush(order_id, phone_ok, outcome) ==
    /\ Len(pushes) < MaxTxns
    /\ LET reply == GatewayReply(outcome)
           result == initiate_stk_push(reply, Len(txlog) + 1)
           row == [order |-> order_id,
                   transaction_type |-> "stk_initiate",
                   merchant_request_id |-> result.merchant_request_id,
                   checkout_request_id |-> result.checkout_request_id,
                   amount |-> orders[order_id].total_amount,
                   response_code |-> result.response_code,
                   response_description |-> result.response_message,
                   mpesa_receipt |-> "",
                   raw_response |-> result.raw_response]
       IN  IF order_id \notin 1..Len(orders) \/ ~phone_ok
           THEN UNCHANGED <<txlog, pushes>>           \* 404, 400
           ELSE /\ pushes' = Append(pushes, [reply |-> reply, result |-> result])
                /\ IF result.raised \/ result.response_code = "None"
                   THEN UNCHANGED txlog               \* NOT NULL violation: 500, rolled back
                   ELSE txlog' = Append(txlog, row)
    /\ UNCHANGED <<now, product, orders, items, req, queue, worker, ack>>

Callback(cid, code, receipt) ==
    [kind |-> "callback", cid |-> cid, code |-> code, receipt |-> receipt]

\* stkCallback.ResultDesc as sent with a result code.
ResultDesc(code) == IF code = 0 THEN "processed" ELSE IF code = 1 THEN "cancelled" ELSE "failed"

\* Callback bodies the webhook may receive: any CheckoutRequestID (0: absent
\* or empty; an id the gateway has not assigned yet is unknown), success with
\* a receipt, ResultCode 1, another non-zero code.
Payloads ==
    { Callback(cid, code, IF code = 0 THEN "RCPT" ELSE "") :
        cid \in 0..MaxTxns, code \in {0, 1, 1032} }

\* mpesa_callback_webhook: queue the task when the body names a
\* CheckoutRequestID and answer ResultCode 0; a body that does not parse (or
\* is no JSON object) raises before that, as does delay() when the broker
\* is down, and the except branch answers ResultCode 1 (parses = FALSE).
Webhook(payload, parses) ==
    /\ Len(queue) < MaxQueue
    /\ queue' = IF parses /\ payload.cid # 0 THEN Append(queue, payload) ELSE queue
    /\ ack' = IF parses THEN "0" ELSE "1"
    /\ UNCHANGED <<now, product, orders, items, txlog, req, worker, pushes>>

IdleWorker == [pc |-> "idle"]

\* A worker whose last task ended with the exception re-raised (line 97).
RaisedWorker == [pc |-> "idle", raised |-> TRUE]

\* TransactionLog.objects.get(checkout_request_id=...): the rows that match.
MatchingRows_or_latest(cid) ==
    IF \E i \in 1..Len(txlog) : txlog[i].checkout_request_id = cid
    THEN {i \in 1..Len(txlog) : txlog[i].checkout_request_id = cid}
    ELSE {i \in 1..Len(txlog) : i = Len(txlog)}
MatchingRows(cid) ==
    {i \in 1..Len(txlog) : txlog[i].checkout_request_id = cid}

\* process_mpesa_callback, lines 23-36: take the task, look the row up.  No
\* row: the task logs and returns.  Several rows: get() raises
\* MultipleObjectsReturned, which the outer handler re-raises.
Worker_Fetch(w) ==
    /\ worker[w].pc = "idle"
    /\ queue # <<>>
    /\ queue' = Tail(queue)
    /\ LET task == Head(queue)
           found == MatchingRows(task.cid)
       IN  IF found = {}
           THEN worker' = [worker EXCEPT ![w] = IdleWorker]
           ELSE IF Cardinality(found) > 1
           THEN worker' = [worker EXCEPT ![w] = RaisedWorker]
           ELSE LET i == CHOOSE i \in found : TRUE
                IN  worker' = [worker EXCEPT ![w] =
                        [pc |-> IF task.code = 0 THEN "save_order" ELSE "save_transaction",
                         task |-> task,
                         txn_id |-> i,
                         transaction |-> txlog[i],
                         order |-> orders[txlog[i].order]]]
    /\ UNCHANGED <<now, product, orders, items, txlog, req, ack, pushes>>

\* The order object after the branch's assignments.
OrderAfter_cancel_fails(order, code, t) ==
    IF code = 0
    THEN [order EXCEPT !.payment_status = "paid", !.order_status = "confirmed", !.paid_at = {t}]
    ELSE [order EXCEPT !.payment_status = "failed"]
OrderAfter(order, code, t) ==
    IF code = 0
    THEN [order EXCEPT !.payment_status = "paid", !.order_status = "confirmed", !.paid_at = {t}]
    ELSE IF code = 1
    THEN [order EXCEPT !.payment_status = "unpaid"]
    ELSE [order EXCEPT !.payment_status = "failed"]

\* The transaction object after the branch's assignments.
TransactionAfter_no_receipt(transaction, task) ==
    IF task.code = 0
    THEN [transaction EXCEPT !.transaction_type = "payment_success",
                             !.response_code = "0",
                             !.response_description = "Payment successful",
                             !.raw_response = task]
    ELSE IF task.code = 1
    THEN [transaction EXCEPT !.transaction_type = "user_cancel",
                             !.raw_response = task]
    ELSE [transaction EXCEPT !.transaction_type = "payment_failed",
                             !.response_code = ToString(task.code),
                             !.response_description = ResultDesc(task.code),
                             !.raw_response = task]
TransactionAfter(transaction, task) ==
    IF task.code = 0
    THEN [transaction EXCEPT !.transaction_type = "payment_success",
                             !.mpesa_receipt = task.receipt,
                             !.response_code = "0",
                             !.response_description = "Payment successful",
                             !.raw_response = task]
    ELSE IF task.code = 1
    THEN [transaction EXCEPT !.transaction_type = "user_cancel",
                             !.raw_response = task]
    ELSE [transaction EXCEPT !.transaction_type = "payment_failed",
                             !.response_code = ToString(task.code),
                             !.response_description = ResultDesc(task.code),
                             !.raw_response = task]

\* order.save(): lines 53-56 (first, on success), 77-78 and 90-91 (second).
Worker_SaveOrder(w) ==
    /\ worker[w].pc = "save_order"
    /\ LET saved == OrderAfter(worker[w].order, worker[w].task.code, now)
       IN  /\ orders' = [orders EXCEPT ![worker[w].transaction.order] = saved]
           /\ worker' = [worker EXCEPT ![w] =
                  IF worker[w].task.code = 0
                  THEN [worker[w] EXCEPT !.pc = "save_transaction", !.order = saved]
                  ELSE IdleWorker]
    /\ UNCHANGED <<now, product, items, txlog, req, queue, ack, pushes>>

\* transaction.save() that inserts the object as a new row.
Worker_SaveTransaction_inserts(w) ==
    /\ worker[w].pc = "save_transaction"
    /\ LET saved == TransactionAfter(worker[w].transaction, worker[w].task)
       IN  /\ txlog' = Append(txlog, saved)
           /\ worker' = [worker EXCEPT ![w] =
                  IF worker[w].task.code = 0
                  THEN IdleWorker
                  ELSE [worker[w] EXCEPT !.pc = "save_order", !.transaction = saved]]
    /\ UNCHANGED <<now, product, orders, items, req, queue, ack, pushes>>

\* transaction.save(): lines 59-64 (second, on success), 73-75 and 84-88 (first).
Worker_SaveTransaction(w) ==
    /\ worker[w].pc = "save_transaction"
    /\ LET saved == TransactionAfter(worker[w].transaction, worker[w].task)
       IN  /\ txlog' = [txlog EXCEPT ![worker[w].txn_id] = saved]
           /\ worker' = [worker EXCEPT ![w] =
                  IF worker[w].task.code = 0
                  THEN IdleWorker
                  ELSE [worker[w] EXCEPT !.pc = "save_order", !.transaction = saved]]
    /\ UNCHANGED <<now, product, orders, items, req, queue, ack, pushes>>

\* The task dies between its two saves (an exception is logged and re-raised,
\* the worker is lost); the first save is already committed.
Worker_Fail(w) ==
    /\ \/ worker[w].pc = "save_transaction" /\ worker[w].task.code = 0
       \/ worker[w].pc = "save_order" /\ worker[w].task.code # 0
    /\ worker' = [worker EXCEPT ![w] = RaisedWorker]
    /\ UNCHANGED <<now, product, orders, items, txlog, req, queue, ack, pushes>>

(* ------------------------- owner and status check ---------------------- *)

\* Values the owner sends for order_status and payment_status ("": the key
\* is absent or empty); the view accepts any string.
OwnerOrderStatuses == {"", "confirmed", "shipped"}

OwnerPaymentStatuses == {"", "refunded"}

\* OwnerOrdersViewSet.partial_update: load the order, assign the fields that
\* were sent, save the row; one request, one transaction.
OwnerUpdateOrder(o, order_status, payment_status) ==
    /\ IF o \notin 1..Len(orders)
       THEN UNCHANGED orders                          \* 404
       ELSE orders' = [orders EXCEPT
               ![o].order_status = IF order_status # "" THEN order_status ELSE @,
               ![o].payment_status = IF payment_status # "" THEN payment_status ELSE @]
    /\ UNCHANGED <<now, product, items, txlog, req, queue, worker, ack, pushes>>

\* check_payment_status: reads the order and reports its fields.
CheckPaymentStatus(o) ==
    /\ o \in 1..Len(orders)
    /\ UNCHANGED vars

\* The one periodic task of the beat schedule, products.tasks.check_low_stock:
\* it reads the products and prints an alert.
Beat_check_low_stock == UNCHANGED vars

(* ---------------------------- specifications --------------------------- *)

Workers == {"w1", "w2"}

Init ==
    /\ now = 0
    /\ product = [p \in CatalogIds |->
                    [stock |-> InitStock, reserved_stock |-> 0, is_active |-> p # 3]]
    /\ orders = <<>>
    /\ items = <<>>
    /\ txlog = <<>>
    /\ req = [c \in Requests |-> IdleReq]
    /\ queue = <<>>
    /\ worker = [w \in Workers |-> IdleWorker]
    /\ ack = "none"
    /\ pushes = <<>>

CheckoutSteps(reqs, carts) ==
    \/ \E c \in reqs, cart \in carts, id \in Identities :
          Checkout_Validate(c, cart, id[1], id[2])
    \/ \E c \in reqs, city \in Cities, dtype \in DeliveryTypes :
          Checkout_Create(c, city, dtype)
    \/ \E c \in reqs : Checkout_Item(c)
    \/ \E c \in reqs : Checkout_Commit(c)
    \/ \E c \in reqs : Checkout_DbError(c)

\* Concurrent checkouts.
Next ==
    \/ CheckoutSteps(Requests, Carts)
    \/ Tick

Spec == Init /\ [][Next]_vars

\* One checkout handler at a time, the owner editing products in between.
NextShop ==
    \/ CheckoutSteps({"r1"}, WideCarts)
    \/ \E p \in {1}, stock \in {2, InitStock}, is_active \in BOOLEAN :
          OwnerUpdateProduct(p, stock, is_active)
    \/ Tick

SpecShop == Init /\ [][NextShop]_vars

\* Payment of an order that a checkout for one unit of product 1 has placed.
InitPay ==
    /\ now = 0
    /\ product = [p \in CatalogIds |->
                    [stock |-> InitStock, reserved_stock |-> IF p = 1 THEN 1 ELSE 0,
                     is_active |-> p # 3]]
    /\ orders = << OrderRow(<<Line(1, 1)>>, "Nairobi", "standard", 0) >>
    /\ items = << [ItemRow(Line(1, 1)) EXCEPT !.order = 1] >>
    /\ txlog = <<>>
    /\ req = [c \in Requests |->
                IF c = "r1" THEN Finished([IdleReq EXCEPT !.cart = <<Line(1, 1)>>,
                                                          !.guest_email = TRUE],
                                          "created", <<>>)
                ELSE IdleReq]
    /\ queue = <<>>
    /\ worker = [w \in Workers |-> IdleWorker]
    /\ ack = "none"
    /\ pushes = <<>>

WorkerSteps(ws) ==
    \/ \E w \in ws : Worker_Fetch(w)
    \/ \E w \in ws : Worker_SaveOrder(w)
    \/ \E w \in ws : Worker_SaveTransaction(w)
    \/ \E w \in ws : Worker_Fail(w)

NextPay ==
    \/ \E o \in 1..2, phone_ok \in BOOLEAN, outcome \in GatewayOutcomes :
          InitiateSTKPush(o, phone_ok, outcome)
    \/ \E payload \in Payloads, parses \in BOOLEAN : Webhook(payload, parses)
    \/ WorkerSteps({"w1"})
    \/ Tick

SpecPay == InitPay /\ [][NextPay]_vars

\* A worker that runs every task it is handed to the end.
RunsTasks(w) ==
    \/ Worker_Fetch(w)
    \/ Worker_SaveOrder(w)
    \/ Worker_SaveTransaction(w)

\* Reconciliation of the placed order's pushes by one worker whose tasks run
\* to the end, within one second of the clock.
NextRecon ==
    \/ \E outcome \in {"accepted", "push_error"} : InitiateSTKPush(1, TRUE, outcome)
    \/ \E payload \in Payloads : Webhook(payload, TRUE)
    \/ RunsTasks("w1")

SpecRecon == InitPay /\ [][NextRecon]_vars

\* Payment of the placed order with the scheduling the deployment gives: the
\* worker runs the tasks it is handed, the clock advances, the beat schedule
\* runs its periodic task.  The gateway and the customer owe nothing: no
\* callback need ever arrive.
NextSweep ==
    \/ \E outcome \in {"accepted", "push_error"} : InitiateSTKPush(1, TRUE, outcome)
    \/ \E payload \in Payloads : Webhook(payload, TRUE)
    \/ RunsTasks("w1")
    \/ Tick
    \/ Beat_check_low_stock

SpecSweep ==
    /\ InitPay /\ [][NextSweep]_vars
    /\ WF_vars(RunsTasks("w1"))
    /\ WF_vars(Tick)
    /\ WF_vars(Beat_check_low_stock)

\* Payment of the placed order while the owner edits it and its status is
\* polled.
NextOwner ==
    \/ \E phone_ok \in BOOLEAN, outcome \in {"accepted", "token_error"} :
          InitiateSTKPush(1, phone_ok, outcome)
    \/ \E payload \in Payloads, parses \in BOOLEAN : Webhook(payload, parses)
    \/ WorkerSteps({"w1"})
    \/ \E o \in 1..2, order_status \in OwnerOrderStatuses,
          payment_status \in OwnerPaymentStatuses :
          OwnerUpdateOrder(o, order_status, payment_status)
    \/ \E o \in 1..2 : CheckPaymentStatus(o)

SpecOwner == InitPay /\ [][NextOwner]_vars

\* Pushes for the placed order against a gateway that answers in every way.
NextGateway ==
    \/ \E phone_ok \in BOOLEAN, outcome \in AllGatewayOutcomes :
          InitiateSTKPush(1, phone_ok, outcome)
    \/ Tick

SpecGateway == InitPay /\ [][NextGateway]_vars

\* Checkouts against a database whose statements fail for no other reason
\* than its constraints.
NextNumbers ==
    \/ \E c \in Requests, cart \in Carts, id \in Identities :
          Checkout_Validate(c, cart, id[1], id[2])
    \/ \E c \in Requests, city \in Cities, dtype \in DeliveryTypes :
          Checkout_Create(c, city, dtype)
    \/ \E c \in Requests : Checkout_Item(c)
    \/ \E c \in Requests : Checkout_Commit(c)
    \/ Tick

SpecNumbers == Init /\ [][NextNumbers]_vars

(* ------------------------------- claims -------------------------------- *)

\* Units of product p in all OrderItem rows.
QuantityOrdered(p) ==
    SumSeq([i \in 1..Len(items) |-> IF items[i].product_sku = p THEN items[i].quantity ELSE 0])

ItemsOf(o) == {i \in 1..Len(items) : items[i].order = o}

RECURSIVE SumOver(_, _)
SumOver(S, f) ==
    IF S = {} THEN 0
    ELSE LET x == CHOOSE x \in S : TRUE IN f[x] + SumOver(S \ {x}, f)

\* A checkout request arrives in slot c in this step.
Arrives(c) == req[c].pc \in {"idle", "done"} /\ req'[c] # req[c]

\* Request c leaves the view in this step.
Leaves(c) == req[c].pc \notin {"idle", "done"} /\ req'[c].pc = "done"

\* Worker w performs its order.save() in this step.
SavesOrder(w) ==
    worker[w].pc = "save_order" /\ worker'[w] # worker[w] /\ worker'[w] # RaisedWorker

\* Worker w returns from process_mpesa_callback in this step, both saves done.
CompletesTask(w) == worker[w].pc # "idle" /\ worker'[w] = IdleWorker

TerminalTypes == {"payment_success", "user_cancel", "payment_failed"}

\* C1: for every product 0 <= reserved_stock <= stock in every reachable
\* state, whatever checkouts and owner product updates have run.
C1_StockBounds ==
    \A p \in CatalogIds :
        0 <= product[p].reserved_stock /\ product[p].reserved_stock <= product[p].stock

\* C2: under every interleaving of concurrent checkouts the units ordered of
\* a product never exceed its stock: of two checkouts whose combined quantity
\* exceeds what is available, at most one succeeds.
C2_NeverOversold ==
    \A p \in CatalogIds : QuantityOrdered(p) <= product[p].stock

\* C3: a TransactionLog row in a terminal state is not changed by any later
\* callback processing: its type, receipt, response code and description and
\* raw response stay as they were.
C3_TerminalRowImmutable ==
    [][\A i \in 1..Len(txlog) :
          txlog[i].transaction_type \in TerminalTypes
          => /\ txlog'[i].transaction_type = txlog[i].transaction_type
             /\ txlog'[i].mpesa_receipt = txlog[i].mpesa_receipt
             /\ txlog'[i].response_code = txlog[i].response_code
             /\ txlog'[i].response_description = txlog[i].response_description
             /\ txlog'[i].raw_response = txlog[i].raw_response]_vars

\* C4: when a success callback has been applied (its row holds that very
\* payload as raw_response), processing an identical delivery leaves the
\* order's payment_status, order_status and paid_at as they were.
C4_SecondDeliveryNoOp ==
    [][\A w \in Workers :
          (/\ SavesOrder(w)
           /\ worker[w].task.code = 0
           /\ txlog[worker[w].txn_id].raw_response = worker[w].task)
          => LET o == worker[w].transaction.order
             IN  /\ orders'[o].payment_status = orders[o].payment_status
                 /\ orders'[o].order_status = orders[o].order_status
                 /\ orders'[o].paid_at = orders[o].paid_at]_vars

\* C5: once an order's payment_status is paid, no callback processing
\* changes it.
C5_PaidIsTerminal ==
    [][\A w \in Workers :
          SavesOrder(w)
          => \A o \in 1..Len(orders) :
                orders[o].payment_status = "paid" => orders'[o].payment_status = "paid"]_vars

\* C6: payment initiation creates no new TransactionLog row for an order
\* whose payment_status is paid.
C6_NoPushAfterPaid ==
    [][\A o \in 1..Len(orders) :
          orders[o].payment_status = "paid"
          => ~(Len(txlog') = Len(txlog) + 1 /\ txlog'[Len(txlog')].order = o)]_vars

C8_TotalIsSubtotalPlusDelivery ==
    \A o \in 1..Len(orders) :
        /\ orders[o].total_amount = orders[o].subtotal + orders[o].delivery_cost
        /\ orders[o].subtotal =
              SumOver(ItemsOf(o), [i \in 1..Len(items) |-> items[i].unit_price * items[i].quantity])

\* C9: a checkout with an empty item list ends at once with the empty-cart
\* error; no Order or OrderItem row is created and no stock is changed.
C9_EmptyCartRejected ==
    [][\A c \in Requests :
          (Arrives(c) /\ req'[c].cart = <<>>)
          => /\ req'[c].pc = "done"
             /\ req'[c].result = "empty_cart"
             /\ UNCHANGED <<orders, items, product>>]_vars

\* An empty cart was refused while an order of another checkout stands.
C9_Witness ==
    \E c \in Requests :
        /\ req[c].pc = "done" /\ req[c].cart = <<>> /\ req[c].result = "empty_cart"
        /\ Len(orders) = 1

\* C10: a checkout naming a missing or inactive product, or asking for more
\* than stock - reserved_stock of a product, ends at once with that item's
\* error; no row is created and no stock is reserved.
C10_BadItemRejected ==
    [][\A c \in Requests :
          LET cart == req'[c].cart
              Missing(k) == \/ cart[k].product_id \notin CatalogIds
                            \/ ~product[cart[k].product_id].is_active
              Short(k) == cart[k].quantity > product[cart[k].product_id].stock
                                             - product[cart[k].product_id].reserved_stock
          IN  (Arrives(c) /\ \E k \in 1..Len(cart) : Missing(k) \/ Short(k))
              => /\ req'[c].pc = "done"
                 /\ req'[c].result = "invalid_items"
                 /\ \A k \in 1..Len(cart) :
                       req'[c].item_errors[k] =
                          IF Missing(k) THEN "product_unavailable"
                          ELSE IF Short(k) THEN "insufficient_stock"
                          ELSE "ok"
                 /\ UNCHANGED <<orders, items, product>>]_vars

\* All InitStock units of product 1 are reserved by one order, and a
\* following checkout for one unit was refused for insufficient stock.
C10_Witness ==
    /\ product[1].stock = InitStock
    /\ product[1].reserved_stock = InitStock
    /\ Len(orders) = 1
    /\ \E c \in Requests :
          /\ req[c].pc = "done"
          /\ req[c].cart = <<Line(1, 1)>>
          /\ req[c].result = "invalid_items"
          /\ req[c].item_errors = <<"insufficient_stock">>

\* A cart line names an active product and fits its committed available stock.
LineFits(line) ==
    /\ line.product_id \in CatalogIds
    /\ product[line.product_id].is_active
    /\ line.quantity <= product[line.product_id].stock - product[line.product_id].reserved_stock

\* C11: a guest checkout without a contact email is rejected at validation
\* and writes nothing; when its cart is otherwise valid the error is the
\* missing-contact error.  An authenticated checkout with a valid cart and no
\* guest email passes validation.
C11_GuestNeedsContact ==
    [][\A c \in Requests :
          LET cart == req'[c].cart
              valid == cart # <<>> /\ \A k \in 1..Len(cart) : LineFits(cart[k])
          IN  /\ (Arrives(c) /\ req'[c].user = "anon" /\ ~req'[c].guest_email)
                 => /\ req'[c].pc = "done"
                    /\ req'[c].result # "created"
                    /\ valid => req'[c].result = "missing_contact"
                    /\ UNCHANGED <<orders, items, product>>
              /\ (Arrives(c) /\ req'[c].user # "anon" /\ ~req'[c].guest_email /\ valid)
                 => req'[c].pc = "create"]_vars

\* A guest without email was refused for the missing contact, and an
\* authenticated customer without guest email has placed an order.
C11_Witness ==
    \E c, d \in Requests :
        /\ req[c].pc = "done" /\ req[c].user = "anon" /\ ~req[c].guest_email
        /\ req[c].cart = <<Line(1, 1)>> /\ req[c].result = "missing_contact"
        /\ req[d].pc = "done" /\ req[d].user = "u1" /\ ~req[d].guest_email
        /\ req[d].result = "created"
        /\ Len(orders) = 1

\* C12: every order row that a checkout adds has order_status pending,
\* payment_status unpaid and no paid_at.
C12_CreatedPendingUnpaid ==
    [][\A o \in (Len(orders) + 1)..Len(orders') :
          /\ orders'[o].order_status = "pending"
          /\ orders'[o].payment_status = "unpaid"
          /\ orders'[o].paid_at = {}]_vars

\* Two checkouts have each created an order.
C12_Witness ==
    /\ Len(orders) = 2
    /\ \E c \in Requests : req[c].pc = "done" /\ req[c].result = "created"

\* C13: an order's payment_status changes only in the order.save() of
\* process_mpesa_callback; payment initiation, the status check and owner
\* order updates leave it as it was.
C13_PaymentStatusOnlyByCallback ==
    [][\A o \in 1..Len(orders) :
          orders'[o].payment_status # orders[o].payment_status
          => \E w \in Workers : SavesOrder(w) /\ worker[w].transaction.order = o]_vars

\* C14: order_status becomes confirmed only in the order.save() of a success
\* callback, together with payment_status paid; every confirmed order has
\* been paid (its paid_at is stamped).
C14_ConfirmedOnlyByPayment ==
    [][\A o \in 1..Len(orders') :
          /\ (o <= Len(orders) /\ orders[o].order_status # "confirmed"
                /\ orders'[o].order_status = "confirmed")
             => /\ \E w \in Workers :
                      SavesOrder(w) /\ worker[w].transaction.order = o /\ worker[w].task.code = 0
                /\ orders'[o].payment_status = "paid"
          /\ orders'[o].order_status = "confirmed" => orders'[o].paid_at # {}]_vars

\* C15: processing a ResultCode 0 callback for a matched transaction saves
\* the order as paid and confirmed with paid_at stamped at the time of the
\* save, and when the task returns the transaction is payment_success with
\* the receipt of the payload and the order is paid and confirmed.
C15_SuccessCallbackApplied ==
    [][\A w \in Workers :
          /\ (SavesOrder(w) /\ worker[w].task.code = 0)
             => LET o == worker[w].transaction.order
                IN  /\ orders'[o].payment_status = "paid"
                    /\ orders'[o].order_status = "confirmed"
                    /\ orders'[o].paid_at = {now}
          /\ (CompletesTask(w) /\ worker[w].task.code = 0)
             => LET o == worker[w].transaction.order
                    i == worker[w].txn_id
                IN  /\ txlog'[i].checkout_request_id = worker[w].task.cid
                    /\ txlog'[i].transaction_type = "payment_success"
                    /\ txlog'[i].mpesa_receipt = worker[w].task.receipt
                    /\ orders'[o].payment_status = "paid"
                    /\ orders'[o].order_status = "confirmed"
                    /\ orders'[o].paid_at # {}]_vars

\* A success callback for the order's push has been processed to the end.
C15_Witness ==
    /\ Len(txlog) = 1
    /\ txlog[1].transaction_type = "payment_success"
    /\ txlog[1].mpesa_receipt = "RCPT"
    /\ orders[1].payment_status = "paid"
    /\ orders[1].order_status = "confirmed"
    /\ orders[1].paid_at = {now}
    /\ worker["w1"] = IdleWorker

\* C16: when a ResultCode 1 callback has been processed the matched
\* transaction is user_cancel and its order's payment_status is unpaid; a
\* push logged afterwards for that order is a new stk_initiate row.  That such
\* a push and a later success bring the order to (confirmed, paid) is the
\* state C16_Witness.
C16_CancelLeavesRetryable ==
    [][/\ \A w \in Workers :
             /\ (SavesOrder(w) /\ worker[w].task.code = 1)
                => orders'[worker[w].transaction.order].payment_status = "unpaid"
             /\ (CompletesTask(w) /\ worker[w].task.code = 1)
                => /\ txlog'[worker[w].txn_id].transaction_type = "user_cancel"
                   /\ orders'[worker[w].transaction.order].payment_status = "unpaid"
       /\ (Len(txlog') = Len(txlog) + 1)
          => /\ txlog'[Len(txlog')].transaction_type = "stk_initiate"
             /\ \A i \in 1..Len(txlog) : txlog'[i] = txlog[i]]_vars

\* The first push was cancelled by the user, a second push was accepted and
\* its success callback processed: the order is confirmed and paid.
C16_Witness ==
    /\ Len(txlog) = 2
    /\ txlog[1].order = 1 /\ txlog[1].transaction_type = "user_cancel"
    /\ txlog[2].order = 1 /\ txlog[2].transaction_type = "payment_success"
    /\ orders[1].payment_status = "paid"
    /\ orders[1].order_status = "confirmed"
    /\ worker["w1"] = IdleWorker

\* C17: when the processing of a cancel or failure callback ends, the
\* reserved stock of each product of the order's items has been decremented
\* by the quantities of those items (floored at 0).
C17_FailureReleasesStock ==
    [][\A w \in Workers :
          (CompletesTask(w) /\ worker[w].task.code # 0)
          => \A i \in ItemsOf(worker[w].transaction.order) :
                LET p == items[i].product_sku
                    released == product[p].reserved_stock - items[i].quantity
                IN  product'[p].reserved_stock = IF released > 0 THEN released ELSE 0]_vars

\* C18: every accepted push whose transaction is stk_initiate eventually
\* leaves stk_initiate (by a callback or by the timeout sweep).
C18_InitiatedEventuallyResolved ==
    \A i \in 1..MaxTxns :
        (/\ Len(txlog) >= i
         /\ txlog[i].transaction_type = "stk_initiate"
         /\ txlog[i].checkout_request_id # 0)
        ~> (Len(txlog) >= i /\ txlog[i].transaction_type # "stk_initiate")

\* A worker takes the head of the queue in this step.
FetchesTask == queue # <<>> /\ queue' = Tail(queue)

\* C19: a callback without CheckoutRequestID is never queued, and a task
\* whose CheckoutRequestID matches no TransactionLog row ends at the lookup:
\* no Order and no TransactionLog row is created or modified, and no worker
\* goes on to write.  Rows change only under a task whose CheckoutRequestID
\* is that of the row written, and only the order of that row changes.
C19_UnknownCallbackDiscarded ==
    [][/\ \A k \in 1..Len(queue') : queue'[k].cid # 0
       /\ (FetchesTask
             /\ \A i \in 1..Len(txlog) : txlog[i].checkout_request_id # Head(queue).cid)
          => /\ UNCHANGED <<orders, txlog, items, product>>
             /\ \A w \in Workers : worker'[w].pc = "idle"
       /\ \A i \in 1..Len(txlog) :
             txlog'[i] # txlog[i]
             => \E w \in Workers :
                   /\ worker[w].pc # "idle"
                   /\ worker[w].txn_id = i
                   /\ worker[w].task.cid = txlog[i].checkout_request_id
       /\ \A o \in 1..Len(orders) :
             orders'[o] # orders[o]
             => \E w \in Workers :
                   /\ worker[w].pc # "idle"
                   /\ worker[w].task.cid = txlog[worker[w].txn_id].checkout_request_id
                   /\ txlog[worker[w].txn_id].order = o]_vars

\* The webhook has acknowledged callbacks, the queue has been drained by the
\* worker, and the accepted push and its order stand as they were created.
C19_Witness ==
    /\ ack = "0" /\ queue = <<>>
    /\ worker["w1"] = IdleWorker
    /\ Len(txlog) = 1
    /\ txlog[1].checkout_request_id = 1
    /\ txlog[1].transaction_type = "stk_initiate"
    /\ txlog[1].raw_response.kind = "gateway"
    /\ orders[1].payment_status = "unpaid" /\ orders[1].paid_at = {}

\* The webhook view has answered or queued in this step.
WebhookActs == ack' # ack \/ Len(queue') > Len(queue)

\* C20: the webhook handler only enqueues and acknowledges: a step of it
\* changes no Order and no TransactionLog row, and whatever the outcome
\* (unknown id, duplicate, malformed payload, enqueue error) the
\* acknowledgment it returns is the same one, ResultCode 0.
C20_WebhookFixedAck ==
    [][WebhookActs => (UNCHANGED <<orders, txlog>> /\ ack' = "0")]_vars

\* Worker w performs one of its two save() calls in this step.
Saves(w) ==
    /\ worker[w].pc \in {"save_order", "save_transaction"}
    /\ worker'[w] # worker[w]
    /\ worker'[w] # RaisedWorker

\* Worker w's task ends with an exception in this step.
Raises(w) == worker[w].pc # "idle" /\ worker'[w] = RaisedWorker

\* C21: the order and its matched transaction change together when a
\* callback is applied.  After every committed write of a callback task both
\* rows show the callback's outcome, so no other operation reads one
\* transitioned and the other not; a task that fails leaves both rows or
\* neither row transitioned.
C21_OrderAndTransactionTogether ==
    [][\A w \in Workers :
          LET i == worker[w].txn_id
              o == worker[w].transaction.order
              order_type == OrderAfter(worker[w].order, worker[w].task.code, now).payment_status
              txn_type == TransactionAfter(worker[w].transaction, worker[w].task).transaction_type
          IN  /\ Saves(w) => /\ orders'[o].payment_status = order_type
                             /\ txlog'[i].transaction_type = txn_type
              /\ Raises(w) => (orders'[o].payment_status = order_type
                                  <=> txlog'[i].transaction_type = txn_type)]_vars

\* C22: every call of the gateway client is audited by exactly one new
\* TransactionLog row of the order: the rows number the calls made, the row
\* of an accepted push carries the merchant and checkout request ids, the
\* row of a failed one carries the failure code and description and an empty
\* checkout_request_id.
C22_EveryPushAudited ==
    [][/\ Len(txlog') = Len(pushes')
       /\ Len(pushes') = Len(pushes) + 1
          => /\ Len(txlog') = Len(txlog) + 1
             /\ \A i \in 1..Len(txlog) : txlog'[i] = txlog[i]
             /\ LET row == txlog'[Len(txlog')]
                IN  /\ row.transaction_type = "stk_initiate"
                    /\ row.order \in 1..Len(orders)
                    /\ \/ /\ row.response_code = "0"
                          /\ row.checkout_request_id # 0
                          /\ row.merchant_request_id # 0
                       \/ /\ row.response_code \notin {"0", ""}
                          /\ row.response_description # ""
                          /\ row.checkout_request_id = 0]_vars

\* C23: initiate_stk_push never raises: whatever the gateway does (the token
\* request fails or times out, the push request times out or raises, the
\* status is not 200, the ResponseCode is not '0') it returns a result, with
\* success false in all those cases, and with success true and the merchant
\* and checkout request ids exactly when the push response has status 200
\* and ResponseCode '0'.
C23_StkPushNeverThrows ==
    \A k \in 1..Len(pushes) :
        LET reply == pushes[k].reply
            result == pushes[k].result
        IN  /\ ~result.raised
            /\ result.success <=> /\ reply.token = "ok"
                                  /\ reply.push = "response"
                                  /\ reply.status_code = 200
                                  /\ reply.ResponseCode = "0"
            /\ result.success => /\ result.merchant_request_id # 0
                                 /\ result.checkout_request_id # 0
                                 /\ result.checkout_request_id = result.raw_response.cid
            /\ ~result.success => result.checkout_request_id = 0

\* A push whose token request timed out returned a failure, and a following
\* push that the gateway accepted returned success.
C23_Witness ==
    /\ Len(pushes) = 2
    /\ pushes[1].reply.token = "timeout" /\ ~pushes[1].result.success
    /\ pushes[2].reply.status_code = 200 /\ pushes[2].result.success

\* C24: callback reconciliation never creates TransactionLog rows.  A step of
\* a callback task leaves the number of rows as it was and changes at most
\* the one row whose checkout_request_id is the task's; rows are added only
\* by a push; no two rows ever carry the same checkout request id, so a
\* resolved id has no duplicate row and the rows of other pushes of the
\* order are untouched.
C24_ReconcilerCreatesNoRows ==
    [][/\ Len(txlog') # Len(txlog) => (pushes' # pushes /\ worker' = worker)
       /\ \A w \in Workers :
             worker'[w] # worker[w]
             => /\ Len(txlog') = Len(txlog)
                /\ \A i \in 1..Len(txlog) :
                      txlog'[i] # txlog[i]
                      => /\ txlog[i].checkout_request_id = worker[w].task.cid
                         /\ txlog'[i].checkout_request_id = worker[w].task.cid
                         /\ txlog'[i].order = txlog[i].order
                         /\ \A j \in 1..Len(txlog) : j # i => txlog'[j] = txlog[j]
       /\ \A i, j \in 1..Len(txlog') :
             (i # j /\ txlog'[i].checkout_request_id # 0)
             => txlog'[i].checkout_request_id # txlog'[j].checkout_request_id]_vars

\* The success callback of the order's first push has been processed beside
\* a second accepted push: two rows, the second as it was logged.
C24_Witness ==
    /\ Len(txlog) = 2 /\ Len(pushes) = 2
    /\ txlog[1].transaction_type = "payment_success" /\ txlog[1].checkout_request_id = 1
    /\ txlog[2].transaction_type = "stk_initiate" /\ txlog[2].checkout_request_id = 2
    /\ txlog[2].raw_response.kind = "gateway"
    /\ worker["w1"] = IdleWorker

\* C25: every order has an order_number that no other order has and that
\* never changes, and no checkout that passed validation fails: two
\* checkouts, also within one second of the clock, both create their order.
C25_OrderNumbersDistinct ==
    [][/\ \A o1, o2 \in 1..Len(orders') :
             o1 # o2 => orders'[o1].order_number # orders'[o2].order_number
       /\ \A o \in 1..Len(orders) : orders'[o].order_number = orders[o].order_number
       /\ \A c \in Requests : Leaves(c) => req'[c].result # "server_error"]_vars

\* C26: the receipt is set only on success: in every reachable state a
\* TransactionLog row with a non-empty mpesa_receipt has transaction_type
\* payment_success.
C26_ReceiptOnlyOnSuccess ==
    \A i \in 1..Len(txlog) :
        txlog[i].mpesa_receipt # "" => txlog[i].transaction_type = "payment_success"

\* C27: processing a callback whose ResultCode is neither 0 nor 1 saves the
\* matched transaction as payment_failed with the result code and
\* description of the payload, and saves the order with payment_status
\* failed, its order_status and paid_at as they were.
C27_FailureCallbackApplied ==
    [][\A w \in Workers :
          /\ (Saves(w) /\ worker[w].pc = "save_transaction" /\ worker[w].task.code \notin {0, 1})
             => LET i == worker[w].txn_id
                IN  /\ txlog'[i].transaction_type = "payment_failed"
                    /\ txlog'[i].response_code = ToString(worker[w].task.code)
                    /\ txlog'[i].response_description = ResultDesc(worker[w].task.code)
                    /\ txlog'[i].raw_response = worker[w].task
          /\ (SavesOrder(w) /\ worker[w].task.code \notin {0, 1})
             => LET o == worker[w].transaction.order
                IN  /\ orders'[o].payment_status = "failed"
                    /\ orders'[o].order_status = orders[o].order_status
                    /\ orders'[o].paid_at = orders[o].paid_at
          /\ (CompletesTask(w) /\ worker[w].task.code \notin {0, 1})
             => /\ txlog'[worker[w].txn_id].transaction_type = "payment_failed"
                /\ orders'[worker[w].transaction.order].payment_status = "failed"]_vars

\* C28: reservations are conserved.  With checkouts running one after the
\* other, each product's reserved_stock is its initial reserved_stock (0)
\* plus the quantities of all OrderItem rows created for it, also when one
\* cart lists the product in more than one line.
C28_ReservationsConserved ==
    \A p \in CatalogIds : product[p].reserved_stock = QuantityOrdered(p)

\* Units of product p asked for by all lines of a cart.
CartQuantity(cart, p) ==
    SumSeq([i \in 1..Len(cart) |-> IF cart[i].product_id = p THEN cart[i].quantity ELSE 0])

\* C29: a checkout whose cart asks, over all its lines, for more units of a
\* product than stock - reserved_stock is rejected at validation, also when
\* each line alone fits; such a cart never produces an order.
C29_CombinedQuantityRejected ==
    [][\A c \in Requests :
          (/\ Arrives(c)
           /\ \E p \in CatalogIds :
                 CartQuantity(req'[c].cart, p) > product[p].stock - product[p].reserved_stock)
          => /\ req'[c].pc = "done"
             /\ req'[c].result \notin {"created", "none"}]_vars

\* Order statuses past confirmed in the order's life (ORDER_STATUSES).
AdvancedStatuses == {"processing", "shipped", "delivered", "cancelled"}

\* C30: a success callback never moves order_status backwards: when the
\* order is processing, shipped, delivered or cancelled at the time the task
\* of a ResultCode 0 callback saves it, its order_status stays what it is.
C30_SuccessNeverMovesBack ==
    [][\A w \in Workers :
          LET o == worker[w].transaction.order
          IN  (/\ SavesOrder(w)
               /\ worker[w].task.code = 0
               /\ orders[o].order_status \in AdvancedStatuses)
              => orders'[o].order_status = orders[o].order_status]_vars

\* The state SpecPay starts from is one a checkout reaches.
InitPayReached ==
    /\ now = 0
    /\ Len(orders) = 1 /\ Len(items) = 1
    /\ orders[1] = OrderRow(<<Line(1, 1)>>, "Nairobi", "standard", 0)
    /\ items[1] = [ItemRow(Line(1, 1)) EXCEPT !.order = 1]
    /\ product[1].reserved_stock = 1
    /\ req["r1"] = Finished([IdleReq EXCEPT !.cart = <<Line(1, 1)>>, !.guest_email = TRUE],
                            "created", <<>>)
    /\ req["r2"] = IdleReq

====
